---- MODULE Spec2Model ----
(***************************************************************************)
(* A model of healpix/high_level.py: the HEALPix and CelestialHEALPix      *)
(* handles, which bind (nside, order[, frame]) and forward every call to   *)
(* the functions of healpix.core.  The handle's methods are translated     *)
(* from high_level.py.  healpix.core is not part of the modelled source:   *)
(* its functions are modelled from the specification (sections 4 and 7),   *)
(* with angles as fixed-point radians.                                     *)
(***************************************************************************)
EXTENDS Integers, Sequences, FiniteSets, TLC

(***************************************************************************)
(* Bounds of the model.                                                    *)
(***************************************************************************)
\* nside ranges over the powers of two 2^0 .. 2^MaxLevel (and 0, -1).
MaxLevel == 1

(***************************************************************************)
(* Fixed-point arithmetic standing for the core's floating point.          *)
(* An angle a (radians) is the integer a * Scale.                          *)
(***************************************************************************)
Scale == 10000
Pi == 31416
HalfPi == 15708
TwoPi == 62832

Abs(x) == IF x < 0 THEN -x ELSE x
Min(a, b) == IF a < b THEN a ELSE b
Max(a, b) == IF a > b THEN a ELSE b

Pow2Of[k \in Nat] == IF k = 0 THEN 1 ELSE 2 * Pow2Of[k - 1]

Pow2(k) == Pow2Of[k]

\* The largest k in lo..hi with k * k <= n  (lo * lo <= n is given).
IsqrtIn[n \in Nat, lo \in Nat, hi \in Nat] ==
    IF lo >= hi THEN lo
    ELSE LET mid == (lo + hi + 1) \div 2
         IN  IF mid * mid <= n THEN IsqrtIn[n, mid, hi] ELSE IsqrtIn[n, lo, mid - 1]

\* floor(sqrt(n)) for 0 <= n < 2^31.
Isqrt(n) == IsqrtIn[n, 0, 46340]

\* sin on [0, pi/2], by its Taylor polynomial of degree 9.
SinQ(x) ==
    LET x2 == (x * x) \div Scale
        t3 == ((x * x2) \div Scale) \div 6
        t5 == ((t3 * x2) \div Scale) \div 20
        t7 == ((t5 * x2) \div Scale) \div 42
        t9 == ((t7 * x2) \div Scale) \div 72
    IN  Min(Scale, x - t3 + t5 - t7 + t9)

\* sin on [0, 2 pi), folded onto [0, pi/2] by the symmetries of the sine.
SinFolded(x) ==
    (IF x <= Pi THEN 1 ELSE -1)
    * SinQ(IF x <= HalfPi THEN x
           ELSE IF x <= Pi THEN Pi - x
           ELSE IF x <= Pi + HalfPi THEN x - Pi
           ELSE TwoPi - x)

Sin(a) == SinFolded(a % TwoPi)

Cos(a) == Sin(a + HalfPi)

\* The largest x in lo..hi with SinQ(x) <= s.
AsinIn[s \in Nat, lo \in Nat, hi \in Nat] ==
    IF lo >= hi THEN lo
    ELSE LET mid == (lo + hi + 1) \div 2
         IN  IF SinQ(mid) <= s THEN AsinIn[s, mid, hi] ELSE AsinIn[s, lo, mid - 1]

\* arcsin of s, clamped to [-1, 1]; the result is in [-pi/2, pi/2].
Asin(s) == (IF s < 0 THEN -1 ELSE 1) * AsinIn[Min(Abs(s), Scale), 0, HalfPi]

(***************************************************************************)
(* The two index schemes.  A pixel is (face, ix, iy): one of the 12 base   *)
(* tiles and the pixel's place in it, 0 <= ix, iy < nside.                 *)
(***************************************************************************)
\* The ring of a base tile's northernmost corner, in units of nside.
jrll == <<2, 2, 2, 2, 3, 3, 3, 3, 4, 4, 4, 4>>
\* The longitude of a base tile's centre, in units of pi/4.
jpll == <<1, 3, 5, 7, 0, 2, 4, 6, 1, 3, 5, 7>>

\* The bits of v at the even positions, packed.
compress_bits[v \in Nat] == IF v = 0 THEN 0 ELSE (v % 2) + 2 * compress_bits[v \div 4]

\* The bits of v moved to the even positions.
spread_bits[v \in Nat] == IF v = 0 THEN 0 ELSE (v % 2) + 4 * spread_bits[v \div 2]

nest2xyf(nside, pix) ==
    LET p == pix % (nside * nside)
    IN  [face |-> pix \div (nside * nside),
         ix |-> compress_bits[p],
         iy |-> compress_bits[p \div 2]]

xyf2nest(nside, ix, iy, face) ==
    face * nside * nside + spread_bits[ix] + 2 * spread_bits[iy]

\* A quarter of the number of pixels in the ring jr of 4 nside - 1 rings.
ring_size(nside, jr) ==
    IF jr < nside THEN jr ELSE IF jr > 3 * nside THEN 4 * nside - jr ELSE nside

\* A place in a ring, wrapped into 1 .. nl4.
ring_place(jp, nl4) ==
    IF jp > nl4 THEN jp - nl4 ELSE IF jp < 1 THEN jp + nl4 ELSE jp

\* The ring-scheme index of the pixel (face, ix, iy) of the ring jr, a ring
\* of 4 nr pixels.
xyf2ring_in(nside, ix, iy, face, jr, nr) ==
    LET nl4 == 4 * nside
        ncap == 2 * nside * (nside - 1)
        n_before == IF jr < nside THEN 2 * nr * (nr - 1)
                    ELSE IF jr > 3 * nside THEN 12 * nside * nside - 2 * (nr + 1) * nr
                    ELSE ncap + (jr - nside) * nl4
        kshift == IF jr < nside \/ jr > 3 * nside THEN 0 ELSE (jr - nside) % 2
    IN  n_before + ring_place((jpll[face + 1] * nr + ix - iy + 1 + kshift) \div 2, nl4) - 1

xyf2ring_at(nside, ix, iy, face, jr) ==
    xyf2ring_in(nside, ix, iy, face, jr, ring_size(nside, jr))

xyf2ring(nside, ix, iy, face) ==
    xyf2ring_at(nside, ix, iy, face, jrll[face + 1] * nside - ix - iy - 1)

\* A ring-scheme index as the ring (1 .. 4 nside - 1), the place in the ring
\* (1 ..) and the ring's geometry: in the north cap, the equatorial belt and
\* the south cap.
ring_north(pix, iring) ==
    [iring |-> iring, iphi |-> pix + 1 - 2 * iring * (iring - 1),
     kshift |-> 0, nr |-> iring]

ring_belt(nside, ip, tmp) ==
    [iring |-> tmp + nside, iphi |-> ip - tmp * 4 * nside + 1,
     kshift |-> (tmp + 2 * nside) % 2, nr |-> nside]

ring_south(nside, ip, irs) ==
    [iring |-> 4 * nside - irs,
     iphi |-> 4 * irs + 1 - (ip - 2 * irs * (irs - 1)),
     kshift |-> 0, nr |-> irs]

ring_of(nside, pix) ==
    LET ncap == 2 * nside * (nside - 1)
        npix == 12 * nside * nside
    IN  IF pix < ncap THEN ring_north(pix, (1 + Isqrt(1 + 2 * pix)) \div 2)
        ELSE IF pix < npix - ncap
        THEN ring_belt(nside, pix - ncap, (pix - ncap) \div (4 * nside))
        ELSE ring_south(nside, npix - pix, (1 + Isqrt(2 * (npix - pix) - 1)) \div 2)

\* The base tile of the pixel r of the equatorial belt.
belt_face(nside, r) ==
    LET tmp == r.iring - nside
        ire == tmp + 1
        irm == 2 * nside + 1 - tmp
        ifm == (r.iphi - ire \div 2 + nside - 1) \div nside
        ifp == (r.iphi - irm \div 2 + nside - 1) \div nside
    IN  IF ifp = ifm THEN (ifp % 4) + 4
        ELSE IF ifp < ifm THEN ifp ELSE ifm + 8

\* The place in the base tile face of the pixel r.
ring2xyf_on(nside, r, face) ==
    LET irt == r.iring - jrll[face + 1] * nside + 1
        ipt0 == 2 * r.iphi - jpll[face + 1] * r.nr - r.kshift - 1
        ipt == IF ipt0 >= 2 * nside THEN ipt0 - 8 * nside ELSE ipt0
    IN  [face |-> face, ix |-> (ipt - irt) \div 2, iy |-> (-ipt - irt) \div 2]

ring2xyf_in(nside, pix, r) ==
    LET ncap == 2 * nside * (nside - 1)
        npix == 12 * nside * nside
    IN  ring2xyf_on(nside, r,
                    IF pix < ncap THEN (r.iphi - 1) \div r.nr
                    ELSE IF pix < npix - ncap THEN belt_face(nside, r)
                    ELSE 8 + (r.iphi - 1) \div r.nr)

ring2xyf(nside, pix) == ring2xyf_in(nside, pix, ring_of(nside, pix))

(***************************************************************************)
(* healpix.core, modelled from the specification.  Every function returns  *)
(* [err, val]: err is "ok" or the kind of the error raised (section 7).    *)
(***************************************************************************)
Ok(v) == [err |-> "ok", val |-> v]
Raise(kind) == [err |-> kind, val |-> 0]

\* Section 4.1: pixel_count.
nside_to_npix(nside) ==
    IF nside <= 0 THEN Raise("InvalidResolution") ELSE Ok(12 * nside * nside)

\* Section 4.1: pixel_area = 4 pi / pixel_count, in steradians.
nside_to_pixel_area(nside) ==
    LET n == nside_to_npix(nside)
    IN  IF n.err # "ok" THEN n ELSE Ok((4 * Pi) \div n.val)

\* Section 4.1: pixel_resolution = sqrt(pixel_area), in radians.
nside_to_pixel_resolution(nside) ==
    LET n == nside_to_npix(nside)
    IN  IF n.err # "ok" THEN n ELSE Ok(Isqrt((4 * Pi * Scale) \div n.val))

\* Section 4.3: the canonical (tile, local 2-D coordinate) of an index.
pix2xyf(nside, order, pix) ==
    IF order = "nested" THEN nest2xyf(nside, pix) ELSE ring2xyf(nside, pix)

xyf2pix(nside, order, ix, iy, face) ==
    IF order = "nested" THEN xyf2nest(nside, ix, iy, face) ELSE xyf2ring(nside, ix, iy, face)

\* The index of the pixel p = (face, ix, iy).
xyf2pix_of(nside, order, p) == xyf2pix(nside, order, p.ix, p.iy, p.face)

\* Section 4.3.
nested_to_ring(nested_index, nside) ==
    LET n == nside_to_npix(nside)
    IN  IF n.err # "ok" THEN n
        ELSE IF nested_index < 0 \/ nested_index >= n.val THEN Raise("InvalidIndex")
        ELSE Ok(xyf2pix_of(nside, "ring", nest2xyf(nside, nested_index)))

\* Section 4.3.
ring_to_nested(ring_index, nside) ==
    LET n == nside_to_npix(nside)
    IN  IF n.err # "ok" THEN n
        ELSE IF ring_index < 0 \/ ring_index >= n.val THEN Raise("InvalidIndex")
        ELSE Ok(xyf2pix_of(nside, "nested", ring2xyf(nside, ring_index)))

\* Section 4.2: the HEALPix projection of the point (x, y) of a base tile,
\* x and y in [0, 1]: linear in longitude and in sin(latitude) in the
\* equatorial belt, square-root compressed in the polar caps.  jr is the
\* point's ring and nr the ring's size, both in units of 1 / Scale.
xyf2loc_at(x, y, face, jr, nr) ==
    [lon |-> IF nr = 0 THEN 0
             ELSE ((Pi \div 4) * ((jpll[face + 1] * nr + x - y) % (8 * Scale))) \div nr,
     lat |-> Asin(IF jr < Scale THEN Scale - ((nr * nr) \div Scale) \div 3
                  ELSE IF jr > 3 * Scale THEN ((nr * nr) \div Scale) \div 3 - Scale
                  ELSE ((2 * Scale - jr) * 2) \div 3)]

xyf2loc_in(x, y, face, jr) == xyf2loc_at(x, y, face, jr, ring_size(Scale, jr))

xyf2loc(x, y, face) == xyf2loc_in(x, y, face, jrll[face + 1] * Scale - x - y)

\* An offset is <<d>>, or <<>> when absent: the pixel centre.
offset_or_center(d) == IF d = <<>> THEN Scale \div 2 ELSE d[1]

\* The point at the offsets (dx, dy) in the pixel p = (face, ix, iy).
pix2loc(nside, p, dx, dy) ==
    xyf2loc((p.ix * Scale + offset_or_center(dx)) \div nside,
            (p.iy * Scale + offset_or_center(dy)) \div nside, p.face)

\* Section 4.2: index_to_lonlat.
healpix_to_lonlat(healpix_index, nside, dx, dy, order) ==
    LET n == nside_to_npix(nside)
    IN  IF n.err # "ok" THEN n
        ELSE IF healpix_index < 0 \/ healpix_index >= n.val THEN Raise("InvalidIndex")
        ELSE Ok(pix2loc(nside, pix2xyf(nside, order, healpix_index), dx, dy))

\* The centre of the pixel with the ring-scheme index p.
xyf2loc_of_ring(nside, p) == pix2loc(nside, ring2xyf(nside, p), <<>>, <<>>)

\* Section 4.2: the inverse projection; the tile, the pixel in the tile and
\* the fractional remainder (dx, dy) of the point with z = sin(latitude) and
\* tt = longitude / (pi / 2): in the equatorial belt and in the polar caps.
loc2xyf_equatorial(z, tt, nside) ==
    LET temp1 == nside * (Scale \div 2 + tt)
        temp2 == (nside * z * 3) \div 4
        jp == (temp1 - temp2) \div Scale
        jm == (temp1 + temp2) \div Scale
        ifp == jp \div nside
        ifm == jm \div nside
    IN  [face |-> IF ifp = ifm THEN (ifp % 4) + 4
                  ELSE IF ifp < ifm THEN ifp % 4 ELSE (ifm % 4) + 8,
         ix |-> jm % nside,
         iy |-> nside - (jp % nside) - 1,
         dx |-> (temp1 + temp2) % Scale,
         dy |-> Scale - ((temp1 - temp2) % Scale)]

loc2xyf_polar(z, tt, nside, tmp) ==
    LET ntt == Min(3, tt \div Scale)
        tp == tt - ntt * Scale
        fp == (tp * tmp) \div Scale
        fm == ((Scale - tp) * tmp) \div Scale
        jp == Min(fp \div Scale, nside - 1)
        jm == Min(fm \div Scale, nside - 1)
        rp == Min(fp - jp * Scale, Scale)
        rm == Min(fm - jm * Scale, Scale)
    IN  IF z >= 0
        THEN [face |-> ntt, ix |-> nside - jm - 1, iy |-> nside - jp - 1,
              dx |-> Scale - rm, dy |-> Scale - rp]
        ELSE [face |-> ntt + 8, ix |-> jp, iy |-> jm, dx |-> rp, dy |-> rm]

loc2xyf_at(z, tt, nside) ==
    IF 3 * Abs(z) <= 2 * Scale
    THEN loc2xyf_equatorial(z, tt, nside)
    ELSE loc2xyf_polar(z, tt, nside, nside * Isqrt(3 * (Scale - Abs(z)) * Scale))

loc2xyf(lon, lat, nside) ==
    loc2xyf_at(Sin(lat), ((lon % TwoPi) * 2 * Scale) \div Pi, nside)

\* What lonlat_to_index returns for the point p = (face, ix, iy, dx, dy).
index_and_offsets(nside, order, p, return_offsets) ==
    <<xyf2pix_of(nside, order, p)>> \o (IF return_offsets THEN <<p.dx, p.dy>> ELSE <<>>)

\* Section 4.2: lonlat_to_index.
lonlat_to_healpix(lon, lat, nside, return_offsets, order) ==
    LET n == nside_to_npix(nside)
    IN  IF n.err # "ok" THEN n
        ELSE IF lat < -HalfPi \/ lat > HalfPi THEN Raise("InvalidCoordinate")
        ELSE Ok(index_and_offsets(nside, order, loc2xyf(lon, lat, nside), return_offsets))

\* Section 4.4: the resolution of a value array of length 12 nside^2
\* (0 when the length is not of that form).
npix_to_nside(npix) ==
    LET n == Isqrt(npix \div 12)
    IN  IF 12 * n * n = npix THEN n ELSE 0

\* Section 4.4: bilinear interpolation at the point p = (face, ix, iy, dx,
\* dy).  The four pixel centres around the point are the pixel holding it
\* and its neighbours on the point's side; a neighbour off the base tile
\* falls back to the nearest pixel of the tile.
interpolate_at(values, order, nside, p) ==
    LET half == Scale \div 2
        jx == Max(0, Min(nside - 1, IF p.dx >= half THEN p.ix + 1 ELSE p.ix - 1))
        jy == Max(0, Min(nside - 1, IF p.dy >= half THEN p.iy + 1 ELSE p.iy - 1))
        wx == Abs(p.dx - half)
        wy == Abs(p.dy - half)
        v(x, y) == values[xyf2pix(nside, order, x, y, p.face) + 1]
    IN  (((Scale - wx) * (Scale - wy)) \div Scale) * v(p.ix, p.iy)
        + ((wx * (Scale - wy)) \div Scale) * v(jx, p.iy)
        + (((Scale - wx) * wy) \div Scale) * v(p.ix, jy)
        + ((wx * wy) \div Scale) * v(jx, jy)

\* The interpolation at the resolution nside derived from len(values).
interpolate_with(lon, lat, values, order, nside) ==
    IF Len(values) = 0 THEN Raise("InvalidResolution")
    ELSE IF nside = 0 THEN Raise("ValueLengthMismatch")
    ELSE IF lat < -HalfPi \/ lat > HalfPi THEN Raise("InvalidCoordinate")
    ELSE Ok(interpolate_at(values, order, nside, loc2xyf(lon, lat, nside)))

\* Section 4.4.
interpolate_bilinear_lonlat(lon, lat, values, order) ==
    interpolate_with(lon, lat, values, order, npix_to_nside(Len(values)))

\* The cosine of the great-circle distance between two points whose
\* longitudes differ by dlon.
cos_distance(lat1, lat2, dlon) ==
    (Sin(lat1) * Sin(lat2)) \div Scale
    + (((Cos(lat1) * Cos(lat2)) \div Scale) * Cos(dlon)) \div Scale

\* The difference of two longitudes, in [0, pi].
lon_difference(lon1, lon2) ==
    LET d == (lon1 - lon2) % TwoPi
    IN  IF d > Pi THEN TwoPi - d ELSE d

\* The centre c of a pixel of a ring of 4 nr pixels, and half the pixel's
\* extent in longitude.
ring_pixel_at(c, nr) ==
    [lon |-> c.lon, lat |-> c.lat, halfwidth |-> Pi \div (4 * nr)]

ring_pixel(nside, p) == ring_pixel_at(xyf2loc_of_ring(nside, p), ring_of(nside, p).nr)

\* The geometry of the rings, computed once for each resolution in use.
ring_pixels ==
    [n \in { Pow2(k) : k \in 0..MaxLevel } |->
        [p \in 0..(12 * n * n - 1) |-> ring_pixel(n, p)]]

pixel_of(nside, p) ==
    IF nside \in DOMAIN ring_pixels THEN ring_pixels[nside][p] ELSE ring_pixel(nside, p)

\* A point at the latitude clat and gap away in longitude is at most radius
\* from a point at the latitude lat.
reaches(lat, clat, gap, radius) ==
    gap = 0 \/ cos_distance(lat, clat, gap) >= Cos(radius)

\* Section 4.5: a candidate is a pixel of a ring in the band
\* [lat - radius, lat + radius] whose longitude span (the pixel's centre +-
\* half the ring's pixel width) reaches the longitudes at most radius from
\* the centre at the ring's latitude.
is_candidate(c, lon, lat, radius) ==
    /\ Abs(c.lat - lat) <= radius
    /\ reaches(lat, c.lat, Max(0, lon_difference(c.lon, lon) - c.halfwidth), radius)

\* Section 4.5: the candidates, as ring-scheme indices.
cone_candidates(lon, lat, radius, nside) ==
    { p \in 0..(12 * nside * nside - 1) : is_candidate(pixel_of(nside, p), lon, lat, radius) }

\* The centre c is at most reach from the point.
is_within(c, lon, lat, reach) ==
    cos_distance(lat, c.lat, lon_difference(c.lon, lon)) >= Cos(reach)

\* Section 4.5: exact mode keeps a candidate only if its centre is at most
\* radius + half the pixel resolution from the point.
cone_exact(lon, lat, radius, nside) ==
    { p \in cone_candidates(lon, lat, radius, nside) :
        is_within(pixel_of(nside, p), lon, lat,
                  Min(Pi, radius + nside_to_pixel_resolution(nside).val \div 2)) }

\* A Python value used as a condition: False is 0, True is 1, and an integer
\* is true unless it is 0.
truthy(v) == v # 0

\* A set of ring-scheme indices in the ordering asked for.
in_order(found, nside, order) ==
    IF order = "nested" THEN { ring_to_nested(p, nside).val : p \in found } ELSE found

\* Section 4.5: cone_search.  The function checks its own input constraint,
\* the radius, before it uses the geometry of nside.
healpix_cone_search(lon, lat, radius, nside, order, approximate) ==
    IF radius < 0 \/ radius > Pi THEN Raise("InvalidRadius")
    ELSE IF nside <= 0 THEN Raise("InvalidResolution")
    ELSE IF lat < -HalfPi \/ lat > HalfPi THEN Raise("InvalidCoordinate")
    ELSE Ok(in_order(IF truthy(approximate)
                     THEN cone_candidates(lon, lat, radius, nside)
                     ELSE cone_exact(lon, lat, radius, nside),
                     nside, order))

(***************************************************************************)
(* astropy's SkyCoord and Quantity, as far as the handle uses them.        *)
(* A Quantity is [isscalar, value]; the value of an array is its first     *)
(* element.  A SkyCoord is [frame, lon, lat, isscalar].                    *)
(***************************************************************************)
Frames == {"icrs", "galactic"}

\* The longitude of the galactic frame's origin in ICRS: the frames differ
\* by a rotation, here one about the polar axis.
FrameShift == 21450

\* skycoord.transform_to(frame).represent_as(UnitSphericalRepresentation)
transform_to(skycoord, frame) ==
    IF skycoord.frame = frame THEN skycoord
    ELSE [skycoord EXCEPT !.frame = frame,
            !.lon = IF frame = "galactic" THEN (skycoord.lon - FrameShift) % TwoPi
                    ELSE (skycoord.lon + FrameShift) % TwoPi]

Quantity(isscalar, value) == [isscalar |-> isscalar, value |-> value]

(***************************************************************************)
(* high_level.py.  self is [nside, order, frame].  A method returns        *)
(* [self, values, err, val, calls]: the handle and the caller's value      *)
(* array after the call, "ok" or the error raised, the value returned and  *)
(* the calls made to healpix.core, in order.                               *)
(***************************************************************************)
CoreCall(fn, nside, order, approximate) ==
    [fn |-> fn, nside |-> nside, order |-> order, approximate |-> approximate]

Return(self, values, c, calls) ==
    [self |-> self, values |-> values, err |-> c.err, val |-> c.val, calls |-> calls]

\* HEALPix.__init__ and CelestialHEALPix.__init__; an absent argument
\* (None) is <<>>, a given one <<v>>.
HEALPix_init(nside, order) ==
    IF nside = <<>> THEN [err |-> "ValueError", self |-> <<>>]
    ELSE [err |-> "ok", self |-> [nside |-> nside[1], order |-> order]]

CelestialHEALPix_init(nside, order, frame) ==
    LET super == HEALPix_init(nside, order)
    IN  IF super.err # "ok" THEN super
        ELSE [err |-> "ok",
              self |-> [nside |-> super.self.nside, order |-> super.self.order,
                        frame |-> IF frame # <<>> THEN frame[1] ELSE "icrs"]]

HEALPix_pixel_area(self, values) ==
    Return(self, values, nside_to_pixel_area(self.nside),
           <<CoreCall("nside_to_pixel_area", self.nside, "", 0)>>)

HEALPix_pixel_resolution(self, values) ==
    Return(self, values, nside_to_pixel_resolution(self.nside),
           <<CoreCall("nside_to_pixel_resolution", self.nside, "", 0)>>)

\* A slip: the property reads the pixel area instead of the pixel count.
npix_as_pixel_area(self, values) ==
    Return(self, values, nside_to_pixel_area(self.nside),
           <<CoreCall("nside_to_pixel_area", self.nside, "", 0)>>)

HEALPix_npix(self, values) ==
    Return(self, values, nside_to_npix(self.nside),
           <<CoreCall("nside_to_npix", self.nside, "", 0)>>)

\* A slip: order is not passed on, and the core uses its default, 'ring'.
healpix_to_lonlat_default_order(self, values, healpix_index, dx, dy) ==
    Return(self, values, healpix_to_lonlat(healpix_index, self.nside, dx, dy, "ring"),
           <<CoreCall("healpix_to_lonlat", self.nside, "ring", 0)>>)

HEALPix_healpix_to_lonlat(self, values, healpix_index, dx, dy) ==
    Return(self, values, healpix_to_lonlat(healpix_index, self.nside, dx, dy, self.order),
           <<CoreCall("healpix_to_lonlat", self.nside, self.order, 0)>>)

HEALPix_lonlat_to_healpix(self, values, lon, lat, return_offsets) ==
    Return(self, values, lonlat_to_healpix(lon, lat, self.nside, return_offsets, self.order),
           <<CoreCall("lonlat_to_healpix", self.nside, self.order, 0)>>)

\* A slip: the pixel count is passed where nside is expected.
nested_to_ring_at_npix(self, values, nested_index) ==
    Return(self, values, nested_to_ring(nested_index, 12 * self.nside * self.nside),
           <<CoreCall("nested_to_ring", 12 * self.nside * self.nside, "", 0)>>)

HEALPix_nested_to_ring(self, values, nested_index) ==
    Return(self, values, nested_to_ring(nested_index, self.nside),
           <<CoreCall("nested_to_ring", self.nside, "", 0)>>)

HEALPix_ring_to_nested(self, values, ring_index) ==
    Return(self, values, ring_to_nested(ring_index, self.nside),
           <<CoreCall("ring_to_nested", self.nside, "", 0)>>)

\* A slip: the length of the value array is not checked.
interpolate_without_length_check(self, values, lon, lat) ==
    Return(self, values, interpolate_bilinear_lonlat(lon, lat, values, self.order),
           <<CoreCall("interpolate_bilinear_lonlat", npix_to_nside(Len(values)),
                      self.order, 0)>>)

\* A slip: only a value array that is too short is rejected.
interpolate_rejecting_short_only(self, values, lon, lat) ==
    LET npix == HEALPix_npix(self, values)
    IN  IF npix.err # "ok" THEN npix
        ELSE IF Len(values) < npix.val
        THEN Return(self, values, Raise("ValueLengthMismatch"), npix.calls \o npix.calls)
        ELSE Return(self, values, interpolate_bilinear_lonlat(lon, lat, values, self.order),
                    npix.calls \o <<CoreCall("interpolate_bilinear_lonlat",
                                             npix_to_nside(Len(values)), self.order, 0)>>)

\* self.npix is read for the comparison and again for the error message.
HEALPix_interpolate_bilinear_lonlat(self, values, lon, lat) ==
    LET npix == HEALPix_npix(self, values)
    IN  IF npix.err # "ok" THEN npix
        ELSE IF Len(values) # npix.val
        THEN Return(self, values, Raise("ValueLengthMismatch"), npix.calls \o npix.calls)
        ELSE Return(self, values, interpolate_bilinear_lonlat(lon, lat, values, self.order),
                    npix.calls \o <<CoreCall("interpolate_bilinear_lonlat",
                                             npix_to_nside(Len(values)), self.order, 0)>>)

\* A slip: the radius is not tested for being a scalar.
cone_search_lonlat_unchecked_radius(self, values, lon, lat, radius, approximate) ==
    IF ~lon.isscalar \/ ~lat.isscalar
    THEN Return(self, values, Raise("InvalidArgumentShape"), <<>>)
    ELSE Return(self, values,
                healpix_cone_search(lon.value, lat.value, radius.value, self.nside,
                                    self.order, approximate),
                <<CoreCall("healpix_cone_search", self.nside, self.order, approximate)>>)

\* A slip: the flag is passed on inverted.
cone_search_lonlat_inverted_flag(self, values, lon, lat, radius, approximate) ==
    IF ~lon.isscalar \/ ~lat.isscalar \/ ~radius.isscalar
    THEN Return(self, values, Raise("InvalidArgumentShape"), <<>>)
    ELSE Return(self, values,
                healpix_cone_search(lon.value, lat.value, radius.value, self.nside,
                                    self.order, IF truthy(approximate) THEN 0 ELSE 1),
                <<CoreCall("healpix_cone_search", self.nside, self.order,
                           IF truthy(approximate) THEN 0 ELSE 1)>>)

\* A slip: the radius is clamped to [0, pi] before it is passed on.
cone_search_lonlat_clamped_radius(self, values, lon, lat, radius, approximate) ==
    IF ~lon.isscalar \/ ~lat.isscalar \/ ~radius.isscalar
    THEN Return(self, values, Raise("InvalidArgumentShape"), <<>>)
    ELSE Return(self, values,
                healpix_cone_search(lon.value, lat.value, Max(0, Min(Pi, radius.value)),
                                    self.nside, self.order, approximate),
                <<CoreCall("healpix_cone_search", self.nside, self.order, approximate)>>)

HEALPix_cone_search_lonlat(self, values, lon, lat, radius, approximate) ==
    IF ~lon.isscalar \/ ~lat.isscalar \/ ~radius.isscalar
    THEN Return(self, values, Raise("InvalidArgumentShape"), <<>>)
    ELSE Return(self, values,
                healpix_cone_search(lon.value, lat.value, radius.value, self.nside,
                                    self.order, approximate),
                <<CoreCall("healpix_cone_search", self.nside, self.order, approximate)>>)

\* SkyCoord(self.frame.realize_frame(UnitSphericalRepresentation(lon, lat)))
\* of the (lon, lat) that the call r returned.
SkyCoord(self, r) ==
    IF r.err # "ok" THEN r
    ELSE [r EXCEPT !.val = [frame |-> self.frame, lon |-> r.val.lon,
                            lat |-> r.val.lat, isscalar |-> TRUE]]

CelestialHEALPix_healpix_to_skycoord(self, values, healpix_index, dx, dy) ==
    SkyCoord(self, HEALPix_healpix_to_lonlat(self, values, healpix_index, dx, dy))

CelestialHEALPix_skycoord_to_healpix(self, values, skycoord, return_offsets) ==
    LET representation == transform_to(skycoord, self.frame)
    IN  HEALPix_lonlat_to_healpix(self, values, representation.lon, representation.lat,
                                  return_offsets)

\* A slip: the handle takes the frame of the coordinates it is given.
interpolate_bilinear_skycoord_adopting_frame(self, values, skycoord) ==
    HEALPix_interpolate_bilinear_lonlat([self EXCEPT !.frame = skycoord.frame], values,
                                        skycoord.lon, skycoord.lat)

CelestialHEALPix_interpolate_bilinear_skycoord(self, values, skycoord) ==
    LET representation == transform_to(skycoord, self.frame)
    IN  HEALPix_interpolate_bilinear_lonlat(self, values, representation.lon,
                                            representation.lat)

\* The fourth argument of cone_search_lonlat is approximate: the method
\* passes self.nside there, and does not pass its own approximate on.
CelestialHEALPix_cone_search_skycoord(self, values, skycoord, radius, approximate) ==
    LET representation == transform_to(skycoord, self.frame)
    IN  HEALPix_cone_search_lonlat(self, values,
                                   Quantity(representation.isscalar, representation.lon),
                                   Quantity(representation.isscalar, representation.lat),
                                   radius, self.nside)

\* The method named op, applied to the arguments a.
Method(op, self, values, a) ==
    CASE op = "pixel_area" -> HEALPix_pixel_area(self, values)
      [] op = "pixel_resolution" -> HEALPix_pixel_resolution(self, values)
      [] op = "npix" -> HEALPix_npix(self, values)
      [] op = "healpix_to_lonlat" -> HEALPix_healpix_to_lonlat(self, values, a[1], a[2], a[3])
      [] op = "lonlat_to_healpix" -> HEALPix_lonlat_to_healpix(self, values, a[1], a[2], a[3])
      [] op = "nested_to_ring" -> HEALPix_nested_to_ring(self, values, a[1])
      [] op = "ring_to_nested" -> HEALPix_ring_to_nested(self, values, a[1])
      [] op = "interpolate_bilinear_lonlat" ->
            HEALPix_interpolate_bilinear_lonlat(self, values, a[1], a[2])
      [] op = "cone_search_lonlat" ->
            HEALPix_cone_search_lonlat(self, values, a[1], a[2], a[3], a[4])
      [] op = "healpix_to_skycoord" ->
            CelestialHEALPix_healpix_to_skycoord(self, values, a[1], a[2], a[3])
      [] op = "skycoord_to_healpix" ->
            CelestialHEALPix_skycoord_to_healpix(self, values, a[1], a[2])
      [] op = "interpolate_bilinear_skycoord" ->
            CelestialHEALPix_interpolate_bilinear_skycoord(self, values, a[1])
      [] op = "cone_search_skycoord" ->
            CelestialHEALPix_cone_search_skycoord(self, values, a[1], a[2], a[3])

(***************************************************************************)
(* The state: a handle, the caller's value array, and the last call made   *)
(* on the handle with its outcome.                                         *)
(***************************************************************************)
VARIABLES
    self_nside,        \* self.nside
    self_order,        \* self.order
    self_frame,        \* self.frame
    caller_values,       \* the caller's value array
    last_op,           \* the method last called ("none" before the first call)
    last_args,         \* its arguments
    last_err,          \* "ok", or the error it raised
    last_result,       \* the value it returned
    core_calls,        \* the calls it made to healpix.core
    constructed   \* the handle and the value array as they were constructed

vars == <<self_nside, self_order, self_frame, caller_values, last_op, last_args, last_err, last_result, core_calls, constructed>>

Self == [nside |-> self_nside, order |-> self_order, frame |-> self_frame]

PowNsides == { Pow2(k) : k \in 0..MaxLevel }
Nsides == {-1, 0} \cup PowNsides
Orders == {"ring", "nested"}
MaxNpix == 12 * Pow2(MaxLevel) * Pow2(MaxLevel)
Indices == -1..MaxNpix
ValueLens == { 12 * n * n : n \in PowNsides } \cup {0, 13}
ValueArray(len) == [i \in 1..len |-> (i * i) % 4]

\* The inputs of the calls.
Offsets == { <<<<>>, <<>>>>, <<<<Scale \div 2>>, <<Scale \div 2>>>>, <<<<0>>, <<Scale>>>> }
CenterOffsets == { <<<<>>, <<>>>>, <<<<Scale \div 2>>, <<Scale \div 2>>>> }
FewIndices == {-1, 0, 7, 12, 30, 48}
Lons == {0, 6000, 23562, 40000}
Lats == {0 - HalfPi, -9000, 0, 2000, 12000, HalfPi + 1}
FewLons == {6000, 40000}
FewLats == {0, -9000, HalfPi + 1}
Radii == {-1, 0, 5000, Pi, Pi + 1}
FewRadii == {-1, 0, 5000}
Approximate == {0, 1}
SkyCoordsOver(L, B) == [frame : Frames, lon : L, lat : B, isscalar : {TRUE}]

\* The arguments of a cone search: scalar ones, and every way for one
\* centre and radius to be arrays.
ConeArgs(L, B, R) ==
    { <<Quantity(TRUE, lon), Quantity(TRUE, lat), Quantity(TRUE, radius), a>> :
        lon \in L, lat \in B, radius \in R, a \in Approximate }
    \cup { <<Quantity(s[1], 6000), Quantity(s[2], 0), Quantity(s[3], 5000), 0>> :
             s \in [1..3 -> BOOLEAN] }

ConeSkyArgs(L, B, R) ==
    { <<c, Quantity(TRUE, radius), a>> :
        c \in SkyCoordsOver(L, B), radius \in R, a \in Approximate }
    \cup { <<[frame |-> "icrs", lon |-> 6000, lat |-> 0, isscalar |-> s[1]],
             Quantity(s[2], 5000), 0>> : s \in [1..2 -> BOOLEAN] }

\* The handles the constructors build: CelestialHEALPix(nside, order, frame).
InitWith(frameArgs, lens) ==
    \E n \in {<<>>} \cup { <<x>> : x \in Nsides }, o \in Orders, f \in frameArgs, l \in lens :
        LET c == CelestialHEALPix_init(n, o, f)
        IN  /\ c.err = "ok"
            /\ self_nside = c.self.nside
            /\ self_order = c.self.order
            /\ self_frame = c.self.frame
            /\ caller_values = ValueArray(l)
            /\ constructed = [self |-> c.self, values |-> ValueArray(l)]
            /\ last_op = "none"
            /\ last_args = <<>>
            /\ last_err = "ok"
            /\ last_result = 0
            /\ core_calls = <<>>

\* A call of the method o with the arguments a, whose outcome is res.
Do(o, a, res) ==
    \E r \in {res} :
        /\ last_op' = o
        /\ last_args' = a
        /\ last_err' = r.err
        /\ last_result' = r.val
        /\ core_calls' = r.calls
        /\ self_nside' = r.self.nside
        /\ self_order' = r.self.order
        /\ self_frame' = r.self.frame
        /\ caller_values' = r.values
        /\ UNCHANGED constructed

pixel_area == Do("pixel_area", <<>>, HEALPix_pixel_area(Self, caller_values))

pixel_resolution ==
    Do("pixel_resolution", <<>>, HEALPix_pixel_resolution(Self, caller_values))

npix == Do("npix", <<>>, HEALPix_npix(Self, caller_values))

healpix_to_lonlat_call(I, D) ==
    \E i \in I, d \in D :
        Do("healpix_to_lonlat", <<i, d[1], d[2]>>,
           HEALPix_healpix_to_lonlat(Self, caller_values, i, d[1], d[2]))

lonlat_to_healpix_call(L, B) ==
    \E lon \in L, lat \in B, return_offsets \in BOOLEAN :
        Do("lonlat_to_healpix", <<lon, lat, return_offsets>>,
           HEALPix_lonlat_to_healpix(Self, caller_values, lon, lat, return_offsets))

nested_to_ring_call(I) ==
    \E i \in I : Do("nested_to_ring", <<i>>, HEALPix_nested_to_ring(Self, caller_values, i))

ring_to_nested_call(I) ==
    \E i \in I : Do("ring_to_nested", <<i>>, HEALPix_ring_to_nested(Self, caller_values, i))

interpolate_bilinear_lonlat_call(L, B) ==
    \E lon \in L, lat \in B :
        Do("interpolate_bilinear_lonlat", <<lon, lat>>,
           HEALPix_interpolate_bilinear_lonlat(Self, caller_values, lon, lat))

cone_search_lonlat_call(A) ==
    \E a \in A :
        Do("cone_search_lonlat", a,
           HEALPix_cone_search_lonlat(Self, caller_values, a[1], a[2], a[3], a[4]))

healpix_to_skycoord_call(I, D) ==
    \E i \in I, d \in D :
        Do("healpix_to_skycoord", <<i, d[1], d[2]>>,
           CelestialHEALPix_healpix_to_skycoord(Self, caller_values, i, d[1], d[2]))

skycoord_to_healpix_call(S) ==
    \E c \in S, return_offsets \in BOOLEAN :
        Do("skycoord_to_healpix", <<c, return_offsets>>,
           CelestialHEALPix_skycoord_to_healpix(Self, caller_values, c, return_offsets))

interpolate_bilinear_skycoord_call(S) ==
    \E c \in S :
        Do("interpolate_bilinear_skycoord", <<c>>,
           CelestialHEALPix_interpolate_bilinear_skycoord(Self, caller_values, c))

cone_search_skycoord_call(A) ==
    \E a \in A :
        Do("cone_search_skycoord", a,
           CelestialHEALPix_cone_search_skycoord(Self, caller_values, a[1], a[2], a[3]))

(***************************************************************************)
(* Spec: every method, on every handle and value array.                    *)
(***************************************************************************)
Init == InitWith({<<>>, <<"galactic">>}, {12, 13, 48})

Next ==
    \/ pixel_area
    \/ pixel_resolution
    \/ npix
    \/ healpix_to_lonlat_call(FewIndices, Offsets)
    \/ lonlat_to_healpix_call(FewLons, FewLats)
    \/ nested_to_ring_call(FewIndices)
    \/ ring_to_nested_call(FewIndices)
    \/ interpolate_bilinear_lonlat_call(FewLons, FewLats)
    \/ cone_search_lonlat_call(ConeArgs(FewLons, {0}, FewRadii))
    \/ healpix_to_skycoord_call(FewIndices, CenterOffsets)
    \/ skycoord_to_healpix_call(SkyCoordsOver(FewLons, {0}))
    \/ interpolate_bilinear_skycoord_call(SkyCoordsOver(FewLons, {0}))
    \/ cone_search_skycoord_call(ConeSkyArgs({6000}, {0}, FewRadii))

Spec == Init /\ [][Next]_vars

(***************************************************************************)
(* SpecOrdering: the ordering converter, on every index.                   *)
(***************************************************************************)
InitOrdering == InitWith({<<>>}, {12})

NextOrdering ==
    \/ nested_to_ring_call(Indices)
    \/ ring_to_nested_call(Indices)

SpecOrdering == InitOrdering /\ [][NextOrdering]_vars

(***************************************************************************)
(* SpecCoordinates: the index/coordinate converter, on every index.        *)
(***************************************************************************)
NextCoordinates ==
    \/ healpix_to_lonlat_call(Indices, CenterOffsets)
    \/ lonlat_to_healpix_call(Lons, Lats)

SpecCoordinates == InitOrdering /\ [][NextCoordinates]_vars

(***************************************************************************)
(* SpecCone: the two cone searches.                                        *)
(***************************************************************************)
InitCone == InitWith({<<>>, <<"galactic">>}, {12})

NextCone ==
    \/ cone_search_lonlat_call(ConeArgs({0, 6000}, {0, -9000, HalfPi + 1}, Radii))
    \/ cone_search_skycoord_call(ConeSkyArgs({6000}, {0, -9000}, Radii))

SpecCone == InitCone /\ [][NextCone]_vars

(***************************************************************************)
(* SpecInterpolate: the pixel count and the interpolation, on value arrays *)
(* of every length.                                                        *)
(***************************************************************************)
InitInterpolate == InitWith({<<>>, <<"galactic">>}, ValueLens)

NextInterpolate ==
    \/ pixel_area
    \/ pixel_resolution
    \/ npix
    \/ interpolate_bilinear_lonlat_call(Lons, Lats)
    \/ interpolate_bilinear_skycoord_call(SkyCoordsOver({0, 6000}, {0, 2000}))

SpecInterpolate == InitInterpolate /\ [][NextInterpolate]_vars

(***************************************************************************)
(* The claims.                                                             *)
(***************************************************************************)
Supported == self_nside \in PowNsides
Npix == 12 * self_nside * self_nside
Interpolations == {"interpolate_bilinear_lonlat", "interpolate_bilinear_skycoord"}
ReachedInterpolation ==
    \E k \in DOMAIN core_calls : core_calls[k].fn = "interpolate_bilinear_lonlat"
Unchanged ==
    /\ Self = constructed.self
    /\ caller_values = constructed.values

\* C1, as stated: on every handle, interpolate_bilinear_lonlat fails with the
\* value-length-mismatch error if and only if len(values) # 12 * nside^2.
C1_MismatchIffOnEveryHandle ==
    last_op \in Interpolations =>
        (last_err = "ValueLengthMismatch" <=> Len(caller_values) # Npix)

\* C1, amended: on a handle with nside > 0, interpolate_bilinear_lonlat fails
\* with the value-length-mismatch error if and only if
\* len(values) # 12 * nside^2; on a handle with nside <= 0 it fails with the
\* invalid-resolution error of the pixel count, whatever the length.  When it
\* fails in either way the core interpolation is not invoked, and the handle
\* and the value array are unchanged.
C1_MismatchIffOnValidHandle ==
    last_op \in Interpolations =>
        /\ self_nside > 0 =>
              (last_err = "ValueLengthMismatch" <=> Len(caller_values) # Npix)
        /\ self_nside <= 0 => last_err = "InvalidResolution"
        /\ last_err \in {"ValueLengthMismatch", "InvalidResolution"} =>
              ~ReachedInterpolation /\ Unchanged

C1_Witness ==
    /\ last_op = "interpolate_bilinear_lonlat"
    /\ self_nside > 0
    /\ last_err = "ValueLengthMismatch"
    /\ Len(caller_values) > 0

\* C2: cone_search_skycoord(skycoord, radius, approximate) returns what
\* cone_search_lonlat returns for the transformed (lon, lat), the same radius
\* and the caller's approximate.
C2_SkycoordHonoursApproximate ==
    last_op = "cone_search_skycoord" =>
        \A c \in {transform_to(last_args[1], self_frame)} :
        \A r \in {HEALPix_cone_search_lonlat(Self, caller_values,
                      Quantity(c.isscalar, c.lon), Quantity(c.isscalar, c.lat),
                      last_args[2], last_args[3])} :
            /\ last_err = r.err
            /\ last_err = "ok" => last_result = r.val

\* C3: a cone search with an array for lon, lat or radius fails with the
\* invalid-argument-shape error before the core is invoked; with three
\* scalars it raises no shape error and invokes the core cone search exactly
\* once, with the handle's nside and order.
C3_AllScalar ==
    IF last_op = "cone_search_lonlat"
    THEN last_args[1].isscalar /\ last_args[2].isscalar /\ last_args[3].isscalar
    ELSE last_args[1].isscalar /\ last_args[2].isscalar

C3_ShapeRejected ==
    last_op \in {"cone_search_lonlat", "cone_search_skycoord"} =>
        IF C3_AllScalar
        THEN /\ last_err # "InvalidArgumentShape"
             /\ Len(core_calls) = 1
             /\ core_calls[1].fn = "healpix_cone_search"
             /\ core_calls[1].nside = self_nside
             /\ core_calls[1].order = self_order
        ELSE /\ last_err = "InvalidArgumentShape"
             /\ core_calls = <<>>

C3_Witness ==
    /\ last_op = "cone_search_skycoord"
    /\ ~last_args[2].isscalar
    /\ last_args[1].isscalar
    /\ last_err = "InvalidArgumentShape"

\* C4: on a handle of a supported nside, for every index i in
\* [0, 12 * nside^2), ring_to_nested(nested_to_ring(i)) = i and
\* nested_to_ring(ring_to_nested(i)) = i, and each conversion stays in
\* [0, 12 * nside^2).
C4_OrderingRoundTrip ==
    (/\ last_op \in {"nested_to_ring", "ring_to_nested"}
     /\ Supported
     /\ last_args[1] \in 0..(Npix - 1)) =>
        /\ last_err = "ok"
        /\ last_result \in 0..(Npix - 1)
        /\ \A back \in {IF last_op = "nested_to_ring"
                        THEN HEALPix_ring_to_nested(Self, caller_values, last_result)
                        ELSE HEALPix_nested_to_ring(Self, caller_values, last_result)} :
              back.err = "ok" /\ back.val = last_args[1]

C4_Witness ==
    /\ last_op = "nested_to_ring"
    /\ self_nside = 2
    /\ last_err = "ok"
    /\ last_result # last_args[1]

\* C5: the pixels a cone search returns with approximate = True include every
\* pixel it returns with approximate = False for the same centre and radius.
C5_ApproximateIsSuperset ==
    (/\ last_op = "cone_search_lonlat"
     /\ last_err = "ok"
     /\ last_args[4] = 1) =>
        \A exact \in {HEALPix_cone_search_lonlat(Self, caller_values, last_args[1],
                          last_args[2], last_args[3], 0)} :
            exact.err = "ok" /\ exact.val \subseteq last_result

C5_Witness ==
    /\ last_op = "cone_search_lonlat"
    /\ last_err = "ok"
    /\ last_args[4] = 1
    /\ last_result # {}
    /\ HEALPix_cone_search_lonlat(Self, caller_values, last_args[1], last_args[2],
                                  last_args[3], 0).val # last_result

\* C6: on a handle with nside <= 0 the pixel count, and the interpolation
\* that reads it, fail with the invalid-resolution error; on a handle with
\* nside > 0 the pixel count is 12 * nside^2.
C6_PixelCount ==
    /\ last_op = "npix" =>
          IF self_nside <= 0
          THEN last_err = "InvalidResolution"
          ELSE last_err = "ok" /\ last_result = Npix
    /\ (last_op \in Interpolations /\ self_nside <= 0) => last_err = "InvalidResolution"

C6_Witness ==
    /\ last_op = "npix"
    /\ self_nside <= 0
    /\ last_err = "InvalidResolution"

\* C7: a cone search with a scalar centre and a radius < 0 or > pi fails
\* with the invalid-radius error and returns no pixel set.
C7_RadiusRejected ==
    (/\ last_op = "cone_search_lonlat"
     /\ C3_AllScalar
     /\ (last_args[3].value < 0 \/ last_args[3].value > Pi)) =>
        last_err = "InvalidRadius" /\ last_result = 0

C7_Witness ==
    /\ last_op = "cone_search_lonlat"
    /\ last_args[3].value > Pi
    /\ self_nside > 0
    /\ last_err = "InvalidRadius"

\* C8: no call, whether it succeeds or fails, changes the handle's nside,
\* order or frame or the caller's value array, and every call returns what
\* the same call returns on the handle as constructed, whatever calls ran
\* before it.
C8_Stateless ==
    /\ Unchanged
    /\ last_op # "none" =>
          \A r \in {Method(last_op, constructed.self, constructed.values, last_args)} :
              /\ last_err = r.err
              /\ last_result = r.val

C8_Witness ==
    /\ last_op = "interpolate_bilinear_skycoord"
    /\ last_err = "ValueLengthMismatch"
    /\ self_frame = "galactic"
    /\ self_order = "nested"

\* C9: on a handle of a supported nside and either order, for every index i
\* in [0, 12 * nside^2), lonlat_to_healpix of the pixel centre that
\* healpix_to_lonlat returns for i (dx = dy = 0.5, or omitted) is i.
C9_CenterRoundTrip ==
    (/\ last_op = "healpix_to_lonlat"
     /\ Supported
     /\ last_args[1] \in 0..(Npix - 1)
     /\ last_args[2] \in {<<>>, <<Scale \div 2>>}
     /\ last_args[3] \in {<<>>, <<Scale \div 2>>}) =>
        /\ last_err = "ok"
        /\ \A back \in {HEALPix_lonlat_to_healpix(Self, caller_values, last_result.lon,
                                                  last_result.lat, FALSE)} :
              back.err = "ok" /\ back.val = <<last_args[1]>>

C9_Witness ==
    /\ last_op = "healpix_to_lonlat"
    /\ self_order = "nested"
    /\ self_nside = 2
    /\ last_args[1] = 47
    /\ last_args[2] = <<>>
    /\ last_err = "ok"

\* C10: every call to the core runs at the handle's resolution and ordering:
\* healpix_to_lonlat, lonlat_to_healpix and cone_search_lonlat pass
\* (self.nside, self.order), nested_to_ring and ring_to_nested pass
\* self.nside, and when interpolate_bilinear_lonlat reaches the core
\* interpolation, the nside the core derives from len(values) is self.nside.
C10_RunsAtHandleResolution ==
    /\ \A k \in DOMAIN core_calls :
          /\ core_calls[k].nside = self_nside
          /\ core_calls[k].order \in {"", self_order}
    /\ last_op \in {"healpix_to_lonlat", "lonlat_to_healpix"} =>
          Len(core_calls) = 1 /\ core_calls[1].order = self_order
    /\ last_op \in {"nested_to_ring", "ring_to_nested"} => Len(core_calls) = 1
    /\ (last_op = "cone_search_lonlat" /\ last_err # "InvalidArgumentShape") =>
          Len(core_calls) = 1 /\ core_calls[1].order = self_order

C10_Witness ==
    /\ last_op = "interpolate_bilinear_lonlat"
    /\ ReachedInterpolation
    /\ self_nside = 2
    /\ last_err = "ok"
====
